---- MODULE Spec2Model ----
(***************************************************************************)
(* Model of the banking voice agent: the LangGraph conversation state      *)
(* machine (backend/src/agents), the guarded banking tools                 *)
(* (backend/src/tools) and the two per-session drivers that invoke the     *)
(* graph once per user turn (backend/src/api/websocket.py and              *)
(* backend/src/api/voice_websocket.py).                                    *)
(*                                                                         *)
(* Conventions: Python None is the string "none"; a confidence is an       *)
(* integer number of tenths (0.5 is 5); a dict key that is not present is  *)
(* listed in the field `absent` of the snapshot.                           *)
(***************************************************************************)
EXTENDS Integers, Sequences, FiniteSets, TLC

VARIABLES
    mode,      \* "text" | "voice": which driver owns the session;
               \* "fn": a function applied on its own
    drv,       \* the driver's snapshot (initial_state / agent_state)
    g,         \* the graph's channel values (checkpoint of the thread)
    pc,        \* "idle", a node name, "returned", "raised", "closed";
               \* "fn_ready", "fn_done" for a function on its own
    steps,     \* nodes executed in the running graph invocation
    db,        \* storage: card status and customer profile per id
    trace,     \* nodes run and collaborators called in the running
               \* invocation; "!" marks a call that raised
    op,        \* the last node or function applied
    ret,       \* what its conditional edge (or the function) returned
    turns      \* user turns handed to the graph so far

(* The voice pipeline of one session (voice_websocket.py) and the registry
   of connections *)
VARIABLES
    main,               \* position of handle_voice_websocket
    task,               \* position of each of the four tasks
    cancelled,          \* tasks whose cancel() was called and not yet felt
    shutdown_event,     \* asyncio.Event: the cancellation signal
    stt_queue,          \* final transcripts waiting for the agent worker
    tts_queue,          \* replies waiting for the synthesis worker
    placed,             \* every reply put on tts_queue so far, in order
    state_lock,         \* the task inside `async with state_lock`, or None
    cur,                \* the transcript the agent worker is processing
    inflight,           \* transcripts whose ainvoke has not returned yet
    heard,              \* is_final of each transcript event delivered so far
    connection,         \* DeepgramSTT.connection is set (stream open)
    released,           \* how often each resource of the session was released
    active_connections, \* the registry: ids with a registered handle
    wire                \* frames sent to each id's handle

graphVars == <<mode, drv, g, pc, steps, db, trace, op, ret, turns>>

pipeVars == <<main, task, cancelled, shutdown_event, stt_queue, tts_queue,
              placed, state_lock, cur, inflight, heard, connection,
              released, active_connections, wire>>

vars == <<graphVars, pipeVars>>

----------------------------------------------------------------------------
(* Bounds of the model *)

MaxTurns == 3          \* user turns per session
MaxSteps == 4          \* nodes per graph invocation before the graph gives up
MaxTranscripts == 2    \* final transcripts the recognizer delivers per session
MaxFrames == 2         \* frames the registry sends to one handle

----------------------------------------------------------------------------
(* Values *)

None == "none"

ConfNone == 0 - 1      \* intent_confidence: None

BalanceNone == 0 - 1   \* account_balance: None

Intents == {"card_atm", "account_servicing", "account_opening",
            "digital_support", "transfer_payment", "account_closure",
            "general_inquiry"}

Confidences == {4, 5}

(* Storage: customers with their PIN, accounts and cards *)
Pins == [CUST1 |-> "p1", CUST2 |-> "p2"]

Accounts == [CUST1 |-> <<100, 250>>, CUST2 |-> <<>>]

CardOwner == [c1 |-> "CUST1"]

CardIds == DOMAIN CardOwner

(* What the identity oracle can extract *)
SaidCustomers == {None, "CUST1"}

SaidPins == {None, "p1", "p2"}

SaidCards == {None, "c1", "cx"}

(* A message of the transcript: who said it and the id add_messages gave it
   (its text is left out: no node branches on it, the oracle reads it) *)
HumanMessage(id) == [role |-> "human", id |-> id]

AIMessage(id) == [role |-> "ai", id |-> id]

Ids(msgs) == {msgs[i].id : i \in 1..Len(msgs)}

(* langgraph add_messages: keep left, append the messages of right whose id
   is not yet there *)
(* A channel without reducer: the update replaces the value *)
add_messages_overwrite(left, right) == right

add_messages(left, right) ==
    LET fresh(m) == m.id \notin Ids(left)
    IN  left \o SelectSeq(right, fresh)

(* state["messages"] + [AIMessage(content=...)] *)
Say(state) ==
    Append(state.messages, AIMessage(Len(state.messages) + 1))

HasHuman(msgs) == \E i \in 1..Len(msgs) : msgs[i].role = "human"

(* The snapshot the text driver starts a session with *)
initial_state ==
    [messages |-> <<>>,
     customer_id |-> None,
     authenticated |-> FALSE,
     authentication_method |-> None,
     verification_attempts |-> 0,
     intent |-> None,
     intent_confidence |-> ConfNone,
     flow_stage |-> None,
     needs_user_input |-> FALSE,
     resume_node |-> None,
     escalation_requested |-> FALSE,
     escalation_reason |-> None,
     account_balance |-> BalanceNone,
     critical_actions_taken |-> <<>>,
     turn_count |-> 0,
     absent |-> {}]

(* The snapshot the voice driver starts with: the same without the keys
   needs_user_input and resume_node *)
agent_state ==
    [initial_state EXCEPT !.absent = {"needs_user_input", "resume_node"}]

(* {**state, key: value}: the key is present afterwards *)
Put(state, keys) == [state EXCEPT !.absent = @ \ keys]

----------------------------------------------------------------------------
(* Intent router *)

NoOracle == [ok |-> FALSE]

(* Every label at a confidence that routes, some labels below it *)
IntentOracle ==
    {NoOracle} \cup
    {[ok |-> TRUE, intent |-> i, confidence |-> c] :
        i \in Intents, c \in {c \in Confidences : c >= 5}} \cup
    {[ok |-> TRUE, intent |-> i, confidence |-> c] :
        i \in {"card_atm", "account_opening"},
        c \in {c \in Confidences : c < 5}}

(* The collaborators a node calls, in order; "!" marks a call that raised *)
route_intent_calls(state, o) ==
    IF state.resume_node # None THEN <<>>
    ELSE IF ~HasHuman(state.messages) THEN <<>>
    ELSE IF o.ok THEN <<"oracle">> ELSE <<"oracle!">>

(* Faulty variant of route_intent_node: a set resume point does not stop
   the classification *)
route_intent_node_reclassifies(state, o) ==
    IF ~HasHuman(state.messages)
    THEN Put([state EXCEPT !.intent = "general_inquiry",
                           !.intent_confidence = 5],
             {"intent", "intent_confidence"})
    ELSE IF o.ok
    THEN Put([state EXCEPT !.intent = o.intent,
                           !.intent_confidence = o.confidence],
             {"intent", "intent_confidence"})
    ELSE Put([state EXCEPT !.intent = "general_inquiry",
                           !.intent_confidence = 3],
             {"intent", "intent_confidence"})

(* Faulty variant of route_intent_node: a failed oracle call hands the
   session to a human instead of falling back *)
route_intent_node_fails_hard(state, o) ==
    IF state.resume_node # None THEN state
    ELSE IF ~HasHuman(state.messages)
    THEN Put([state EXCEPT !.intent = "general_inquiry",
                           !.intent_confidence = 5],
             {"intent", "intent_confidence"})
    ELSE IF o.ok
    THEN Put([state EXCEPT !.intent = o.intent,
                           !.intent_confidence = o.confidence],
             {"intent", "intent_confidence"})
    ELSE Put([state EXCEPT !.intent = "general_inquiry",
                           !.intent_confidence = 3,
                           !.escalation_requested = TRUE,
                           !.escalation_reason = "Agent error"],
             {"intent", "intent_confidence"})

route_intent_node(state, o) ==
    IF state.resume_node # None THEN state
    ELSE IF ~HasHuman(state.messages)
    THEN Put([state EXCEPT !.intent = "general_inquiry",
                           !.intent_confidence = 5],
             {"intent", "intent_confidence"})
    ELSE IF o.ok
    THEN Put([state EXCEPT !.intent = o.intent,
                           !.intent_confidence = o.confidence],
             {"intent", "intent_confidence"})
    ELSE Put([state EXCEPT !.intent = "general_inquiry",
                           !.intent_confidence = 3],
             {"intent", "intent_confidence"})

(* Faulty variant of intent_to_node: a closure request goes to its handler
   without passing the security check *)
intent_to_node_closure_unguarded ==
    [card_atm |-> "security_check",
     account_servicing |-> "security_check",
     transfer_payment |-> "security_check",
     account_closure |-> "closure_agent",
     account_opening |-> "opening_agent",
     digital_support |-> "digital_agent",
     general_inquiry |-> "general_inquiry_node"]

intent_to_node ==
    [card_atm |-> "security_check",
     account_servicing |-> "security_check",
     transfer_payment |-> "security_check",
     account_closure |-> "security_check",
     account_opening |-> "opening_agent",
     digital_support |-> "digital_agent",
     general_inquiry |-> "general_inquiry_node"]

(* Faulty variant of route_to_flow: the label is routed whatever its
   confidence *)
route_to_flow_no_override(state) ==
    IF state.resume_node # None THEN state.resume_node
    ELSE IF state.intent \in DOMAIN intent_to_node
         THEN intent_to_node[state.intent]
         ELSE "general_inquiry_node"

route_to_flow(state) ==
    IF state.resume_node # None THEN state.resume_node
    ELSE LET confidence == IF "intent_confidence" \in state.absent
                           THEN 0 ELSE state.intent_confidence
         IN  IF confidence = ConfNone THEN "TypeError"
             ELSE IF confidence < 5 THEN "general_inquiry_node"
             ELSE IF state.intent \in DOMAIN intent_to_node
                  THEN intent_to_node[state.intent]
                  ELSE "general_inquiry_node"

----------------------------------------------------------------------------
(* Security check *)

IdentityOracle ==
    {[err |-> "oracle", has_identity_info |-> FALSE,
      customer_id |-> None, pin |-> None]} \cup
    {[err |-> "none", has_identity_info |-> FALSE,
      customer_id |-> None, pin |-> None]} \cup
    {[err |-> e, has_identity_info |-> TRUE, customer_id |-> c, pin |-> p] :
        e \in {"none", "db"}, c \in SaidCustomers, p \in SaidPins}

(* bcrypt.checkpw against the stored hash of that customer *)
verify_pin(customer_id, pin) ==
    /\ customer_id \in DOMAIN Pins
    /\ Pins[customer_id] = pin

WithCustomer(state, o) ==
    IF o.customer_id # None
    THEN [state EXCEPT !.customer_id = o.customer_id]
    ELSE state

(* A suspension that forgets where to resume *)
Suspend_without_resume(state, node) ==
    Put([state EXCEPT !.needs_user_input = TRUE,
                      !.messages = Say(state)],
        {"needs_user_input", "resume_node"})

Suspend(state, node) ==
    Put([state EXCEPT !.needs_user_input = TRUE,
                      !.resume_node = node,
                      !.messages = Say(state)],
        {"needs_user_input", "resume_node"})

security_check_calls(state, o) ==
    IF state.authenticated THEN <<>>
    ELSE IF state.verification_attempts >= 3 THEN <<>>
    ELSE IF o.err = "oracle" THEN <<"oracle!">>
    ELSE IF ~o.has_identity_info THEN <<"oracle">>
    ELSE IF o.customer_id # None /\ o.pin # None
         THEN IF o.err = "db" THEN <<"oracle", "verify_pin!">>
              ELSE <<"oracle", "verify_pin">>
         ELSE <<"oracle">>

(* security_check_node without the test of the attempt counter *)
security_check_node_unlimited(state, o) ==
    IF state.authenticated THEN state
    ELSE IF o.err = "oracle"
    THEN Suspend(state, "security_check")
    ELSE IF ~o.has_identity_info
    THEN Suspend(state, "security_check")
    ELSE IF o.customer_id # None /\ o.pin # None
    THEN IF o.err = "db"
         THEN Suspend(WithCustomer(state, o), "security_check")
         ELSE IF verify_pin(o.customer_id, o.pin)
         THEN Put([WithCustomer(state, o) EXCEPT
                     !.authenticated = TRUE,
                     !.authentication_method = "pin",
                     !.needs_user_input = FALSE,
                     !.resume_node = None,
                     !.messages = Say(state)],
                  {"needs_user_input", "resume_node"})
         ELSE \* wrong PIN; remaining_attempts only selects the wording
              LET new_attempts == state.verification_attempts + 1
              IN  Suspend([WithCustomer(state, o) EXCEPT
                              !.verification_attempts = new_attempts],
                          "security_check")
    ELSE IF o.customer_id # None
    THEN Suspend(WithCustomer(state, o), "security_check")
    ELSE Suspend(state, "security_check")

security_check_node(state, o) ==
    IF state.authenticated THEN state
    ELSE IF state.verification_attempts >= 3
    THEN [state EXCEPT
            !.escalation_requested = TRUE,
            !.escalation_reason = "Failed authentication after 3 attempts",
            !.messages = Say(state)]
    ELSE IF o.err = "oracle"
    THEN Suspend(state, "security_check")
    ELSE IF ~o.has_identity_info
    THEN Suspend(state, "security_check")
    ELSE IF o.customer_id # None /\ o.pin # None
    THEN IF o.err = "db"
         THEN Suspend(WithCustomer(state, o), "security_check")
         ELSE IF verify_pin(o.customer_id, o.pin)
         THEN Put([WithCustomer(state, o) EXCEPT
                     !.authenticated = TRUE,
                     !.authentication_method = "pin",
                     !.needs_user_input = FALSE,
                     !.resume_node = None,
                     !.messages = Say(state)],
                  {"needs_user_input", "resume_node"})
         ELSE \* wrong PIN; remaining_attempts only selects the wording
              LET new_attempts == state.verification_attempts + 1
              IN  Suspend([WithCustomer(state, o) EXCEPT
                              !.verification_attempts = new_attempts],
                          "security_check")
    ELSE IF o.customer_id # None
    THEN Suspend(WithCustomer(state, o), "security_check")
    ELSE Suspend(state, "security_check")

auth_intent_to_node ==
    [card_atm |-> "card_atm_agent",
     account_servicing |-> "account_servicing_agent",
     transfer_payment |-> "transfer_agent",
     account_closure |-> "closure_agent"]

check_auth_status(state) ==
    IF state.escalation_requested THEN "escalation"
    ELSE IF state.needs_user_input THEN "__end__"
    ELSE IF ~state.authenticated THEN "security_check"
    ELSE IF state.intent \in DOMAIN auth_intent_to_node
         THEN auth_intent_to_node[state.intent]
         ELSE "escalation"

----------------------------------------------------------------------------
(* Banking tools and their decorators.  A tool call yields the value it
   returns or the exception it raises, the snapshot it was given (the
   decorators mutate critical_actions_taken in place) and the storage. *)

InitDb ==
    [cards |-> [c \in CardIds |-> "active"],
     profile |-> [c \in DOMAIN Pins |-> "old"]]

Returned(success, error, state, store) ==
    [raised |-> None, success |-> success, error |-> error, value |-> 0,
     state |-> state, db |-> store]

Raised(exc, state, store) ==
    [raised |-> exc, success |-> FALSE, error |-> exc, value |-> 0,
     state |-> state, db |-> store]

(* Faulty variant of requires_auth: the wrapped call runs for any state *)
requires_auth_skipped(state, store, call) == call

(* @requires_auth: the wrapped call runs only for an authenticated state *)
requires_auth(state, store, call) ==
    IF ~state.authenticated
    THEN Raised("AuthenticationRequired", state, store)
    ELSE call

(* @log_critical_action: after the wrapped call returned, whatever it
   returned, the action type is appended *)
log_critical_action(action_type, call) ==
    IF call.raised # None THEN call
    ELSE [call EXCEPT !.state.critical_actions_taken =
                          Append(@, action_type)]

block_card_body(state, store, card_id, fails) ==
    IF fails THEN Raised("db", state, store)
    ELSE IF card_id \notin DOMAIN store.cards
    THEN Returned(FALSE, "Card not found", state, store)
    ELSE IF store.cards[card_id] = "blocked"
    THEN Returned(FALSE, "Card is already blocked", state, store)
    ELSE Returned(TRUE, None, state,
                  [store EXCEPT !.cards[card_id] = "blocked"])

block_card(state, store, card_id, fails) ==
    requires_auth(state, store,
        log_critical_action("CARD_BLOCKED",
            block_card_body(state, store, card_id, fails)))

get_card_details(state, store, card_id, fails) ==
    IF fails THEN Raised("db", state, store)
    ELSE IF card_id \notin DOMAIN store.cards
    THEN Returned(FALSE, "Card not found", state, store)
    ELSE Returned(TRUE, None, state, store)

Sum(seq) ==
    LET RECURSIVE S(_)
        S(i) == IF i = 0 THEN 0 ELSE seq[i] + S(i - 1)
    IN  S(Len(seq))

get_account_balance(state, store, customer_id, fails) ==
    requires_auth(state, store,
        IF fails THEN Raised("db", state, store)
        ELSE IF customer_id \notin DOMAIN Accounts
                \/ Accounts[customer_id] = <<>>
        THEN Returned(FALSE, "No accounts found for customer", state, store)
        ELSE [Returned(TRUE, None, state, store) EXCEPT
                !.value = Sum(Accounts[customer_id])])

get_recent_transactions(state, store, customer_id) ==
    requires_auth(state, store, Returned(TRUE, None, state, store))

allowed_fields == {"email", "phone"}

update_profile(state, store, customer_id, updates, fails) ==
    requires_auth(state, store,
        IF updates \cap allowed_fields = {}
        THEN Returned(FALSE, "No valid fields to update", state, store)
        ELSE IF fails THEN Raised("db", state, store)
        ELSE Returned(TRUE, None, state,
                 IF customer_id \in DOMAIN store.profile
                 THEN [store EXCEPT !.profile[customer_id] = "new"]
                 ELSE store))

request_statement(state, store, customer_id) ==
    requires_auth(state, store, Returned(TRUE, None, state, store))

create_lead(state, store) == Returned(TRUE, None, state, store)

----------------------------------------------------------------------------
(* Card & ATM agent.  A node yields the snapshot it returns (the one it was
   given when it returns nothing), the storage and the collaborators it
   called. *)

Node(state, store, calls) == [s |-> state, db |-> store, calls |-> calls]

(* An escalation that words the reason and the reply but leaves the flag *)
Escalate_unflagged(state, reason) ==
    [state EXCEPT !.escalation_reason = reason,
                  !.messages = Say(state)]

Escalate(state, reason) ==
    [state EXCEPT !.escalation_requested = TRUE,
                  !.escalation_reason = reason,
                  !.messages = Say(state)]

Stage(state, stage) ==
    [state EXCEPT !.flow_stage = stage, !.messages = Say(state)]

(* A handler whose except clause is missing: the snapshot comes back as it
   was, nothing is escalated *)
agent_error_unhandled(state) == state

(* except Exception in the card and the account handler: whatever the oracle
   or a banking operation raised becomes an escalation with the reason
   "Agent error: <message>" and the generic apology *)
agent_error(state) == Escalate(state, "Agent error")

CardOracle ==
    {[err |-> "oracle", action |-> "gather_info", card_id |-> None,
      confirmation_needed |-> FALSE]} \cup
    {[err |-> "none", action |-> a, card_id |-> None,
      confirmation_needed |-> FALSE] :
        a \in {"gather_info", "complete", "escalate"}} \cup
    {[err |-> e, action |-> "block_card", card_id |-> c,
      confirmation_needed |-> n] :
        e \in {"none", "db"}, c \in SaidCards, n \in BOOLEAN} \cup
    {[err |-> e, action |-> "check_status", card_id |-> c,
      confirmation_needed |-> FALSE] :
        e \in {"none", "db"}, c \in SaidCards}

card_atm_agent_node(state, store, o) ==
    IF o.err = "oracle"
    THEN Node(agent_error(state),
              store, <<"oracle!">>)
    ELSE IF o.action = "block_card"
    THEN IF ~o.confirmation_needed
         THEN IF o.card_id # None
              THEN LET result == block_card(state, store, o.card_id,
                                            o.err = "db")
                   IN  IF result.raised # None
                       THEN Node(agent_error(result.state),
                                 result.db, <<"oracle", "block_card!">>)
                       ELSE IF result.success
                       THEN Node(Stage(result.state, "card_blocked"),
                                 result.db, <<"oracle", "block_card">>)
                       ELSE Node(Escalate(result.state, "Card block failed"),
                                 result.db, <<"oracle", "block_card">>)
              ELSE Node(Suspend(state, "card_atm_agent"),
                        store, <<"oracle">>)
         ELSE \* the decision asks for confirmation first
              Node(Suspend([state EXCEPT
                              !.flow_stage = "awaiting_confirmation"],
                           "card_atm_agent"),
                   store, <<"oracle", "confirmation_needed">>)
    ELSE IF o.action = "check_status"
    THEN IF o.card_id # None
         THEN LET card_info == get_card_details(state, store, o.card_id,
                                                o.err = "db")
              IN  IF card_info.raised # None
                  THEN Node(agent_error(state),
                            store, <<"oracle", "get_card_details!">>)
                  ELSE Node([state EXCEPT !.messages =
                               Say(state)],
                            store, <<"oracle", "get_card_details">>)
         ELSE Node(state, store, <<"oracle">>)
    ELSE IF o.action = "escalate"
    THEN Node(Escalate(state, "Card issue requires specialist"), store, <<"oracle">>)
    ELSE IF o.action = "complete"
    THEN Node(Stage(state, "complete"),
              store, <<"oracle">>)
    ELSE Node(Suspend(state, "card_atm_agent"),
              store, <<"oracle">>)

check_card_flow_completion(state) ==
    IF state.escalation_requested THEN "escalation"
    ELSE IF state.needs_user_input THEN "__end__"
    ELSE IF state.flow_stage \in {"card_blocked", "complete"}
    THEN "complete"
    ELSE "card_atm_agent"

----------------------------------------------------------------------------
(* Account servicing agent *)

AccountOracle ==
    {[err |-> "oracle", action |-> "gather_info", profile_updates |-> {}]}
    \cup
    {[err |-> "none", action |-> a, profile_updates |-> {}] :
        a \in {"request_statement", "gather_info", "complete", "escalate"}}
    \cup
    {[err |-> e, action |-> "get_balance", profile_updates |-> {}] :
        e \in {"none", "db"}}
    \cup
    {[err |-> e, action |-> "update_profile", profile_updates |-> u] :
        e \in {"none", "db"}, u \in {{}, {"email"}, {"address"}}}

account_servicing_agent_node(state, store, o) ==
    LET customer_id == state.customer_id
        failed(result, call) ==
            Node(agent_error(result.state),
                 result.db, <<"oracle", call>>)
    IN
    IF o.err = "oracle"
    THEN Node(agent_error(state),
              store, <<"oracle!">>)
    ELSE IF o.action = "get_balance"
    THEN LET result == get_account_balance(state, store, customer_id,
                                           o.err = "db")
         IN  IF result.raised # None
             THEN failed(result, "get_account_balance!")
             ELSE IF result.success
             THEN Node([Stage(state, "complete") EXCEPT
                           !.account_balance = result.value],
                       store, <<"oracle", "get_account_balance">>)
             ELSE Node([state EXCEPT !.messages =
                          Say(state)],
                       store, <<"oracle", "get_account_balance">>)
    ELSE IF o.action = "request_statement"
    THEN LET result == request_statement(state, store, customer_id)
         IN  IF result.raised # None
             THEN failed(result, "request_statement!")
             ELSE IF result.success
             THEN Node(Stage(state, "complete"),
                       store, <<"oracle", "request_statement">>)
             ELSE Node(state, store, <<"oracle", "request_statement">>)
    ELSE IF o.action = "update_profile"
    THEN IF o.profile_updates # {}
         THEN LET result == update_profile(state, store, customer_id,
                                           o.profile_updates, o.err = "db")
              IN  IF result.raised # None
                  THEN failed(result, "update_profile!")
                  ELSE IF result.success
                  THEN Node(Stage(state, "complete"),
                            result.db, <<"oracle", "update_profile">>)
                  ELSE Node([state EXCEPT !.messages =
                               Say(state)],
                            result.db, <<"oracle", "update_profile">>)
         ELSE Node(state, store, <<"oracle">>)
    ELSE IF o.action = "escalate"
    THEN Node(Escalate(state, "Account servicing requires specialist"), store, <<"oracle">>)
    ELSE IF o.action = "complete"
    THEN Node(Stage(state, "complete"),
              store, <<"oracle">>)
    ELSE Node(Suspend(state, "account_servicing_agent"),
              store, <<"oracle">>)

check_account_flow_completion(state) ==
    IF state.escalation_requested THEN "escalation"
    ELSE IF state.needs_user_input THEN "__end__"
    ELSE IF state.flow_stage = "complete" THEN "complete"
    ELSE "account_servicing_agent"

----------------------------------------------------------------------------
(* Stub agents *)

(* email_match: whether the e-mail pattern is found in the user's text *)
(* The opening stub asking for the e-mail address without suspending *)
account_opening_agent_node_unsuspended(state, store, email_match) ==
    IF email_match
    THEN Node(Stage(state, "complete"),
              store, <<"create_lead">>)
    ELSE Node([state EXCEPT !.messages = Say(state)],
              store, <<>>)

account_opening_agent_node(state, store, email_match) ==
    IF email_match
    THEN Node(Stage(state, "complete"),
              store, <<"create_lead">>)
    ELSE Node(Suspend(state, "opening_agent"),
              store, <<>>)

digital_support_agent_node(state, store) ==
    Node(Escalate(state, "Digital support - requires technical specialist"), store, <<>>)

transfer_payment_agent_node(state, store) ==
    Node(Escalate(state, "Transfer/payment issue - requires specialist"), store, <<>>)

account_closure_agent_node(state, store) ==
    IF state.flow_stage = None
    THEN Node(Suspend([state EXCEPT !.flow_stage = "retention_attempt"],
                      "closure_agent"), store, <<>>)
    ELSE Node(Escalate(state,
                       "Account closure - retention specialist needed"), store, <<>>)

general_inquiry_agent_node(state, store) ==
    Node(Stage(state, "complete"), store, <<>>)

human_escalation_node(state, store) ==
    Node(Stage(state, "escalated"), store, <<>>)

check_flow_completion(state) ==
    IF state.escalation_requested THEN "escalation"
    ELSE IF state.needs_user_input THEN "__end__"
    ELSE IF state.flow_stage = "complete" THEN "complete"
    ELSE IF "intent" \in state.absent THEN "general_inquiry_agent"
    ELSE IF state.intent = None THEN "TypeError"
    ELSE IF state.intent = "card_atm" THEN "card_atm_agent"
    ELSE IF state.intent = "account_servicing" THEN "account_servicing_agent"
    ELSE IF state.intent = "account_opening" THEN "account_opening_agent"
    ELSE IF state.intent = "digital_support" THEN "digital_support_agent"
    ELSE IF state.intent = "transfer_payment" THEN "transfer_payment_agent"
    ELSE IF state.intent = "account_closure" THEN "account_closure_agent"
    ELSE "general_inquiry_agent"

check_general_inquiry(state) ==
    IF state.flow_stage = "complete" THEN "complete"
    ELSE "general_inquiry_node"

----------------------------------------------------------------------------
(* The graph: nodes, conditional edges and one invocation *)

AgentNodes == {"card_atm_agent", "account_servicing_agent", "opening_agent",
               "digital_agent", "transfer_agent", "closure_agent",
               "general_inquiry_node"}

GraphNodes == {"intent_router", "security_check", "escalation"}
              \cup AgentNodes

StubNodes == {"opening_agent", "digital_agent", "transfer_agent",
              "closure_agent"}

(* add_conditional_edges: the keys each node's path map accepts *)
PathMap(node) ==
    IF node = "intent_router"
    THEN {"security_check", "opening_agent", "digital_agent",
          "general_inquiry_node", "card_atm_agent",
          "account_servicing_agent", "transfer_agent", "closure_agent"}
    ELSE IF node = "security_check"
    THEN {"card_atm_agent", "account_servicing_agent", "transfer_agent",
          "closure_agent", "security_check", "escalation", "__end__"}
    ELSE IF node = "general_inquiry_node"
    THEN {"general_inquiry_node", "complete"}
    ELSE {node, "escalation", "complete", "__end__"}

(* Where the session goes after a node whose path function returned key *)
Destination(node, key) ==
    IF node = "escalation" THEN "returned"
    ELSE IF key \notin PathMap(node) THEN "raised"
    ELSE IF key \in {"complete", "__end__"} THEN "returned"
    ELSE key

(* ainvoke(input, config) on the thread's checkpoint: every key of the
   input overwrites its channel, messages are merged by id *)
Invoke(ckpt, input) ==
    [input EXCEPT
        !.messages = add_messages(ckpt.messages, input.messages),
        !.needs_user_input =
            IF "needs_user_input" \in input.absent
            THEN ckpt.needs_user_input ELSE @,
        !.resume_node =
            IF "resume_node" \in input.absent THEN ckpt.resume_node ELSE @,
        !.absent = input.absent \cap ckpt.absent]

(* The path function add_conditional_edges registers for each node *)
PathFunction(node, state) ==
    IF node = "intent_router" THEN route_to_flow(state)
    ELSE IF node = "security_check" THEN check_auth_status(state)
    ELSE IF node = "card_atm_agent" THEN check_card_flow_completion(state)
    ELSE IF node = "account_servicing_agent"
    THEN check_account_flow_completion(state)
    ELSE IF node = "general_inquiry_node" THEN check_general_inquiry(state)
    ELSE check_flow_completion(state)

Running == pc \in GraphNodes /\ steps < MaxSteps

Advance(node, res) ==
    /\ g' = res.s
    /\ db' = res.db
    /\ trace' = trace \o <<node>> \o res.calls
    /\ op' = node
    /\ ret' = IF node = "escalation" THEN "__end__"
              ELSE PathFunction(node, res.s)
    /\ pc' = Destination(node, ret')
    /\ steps' = steps + 1
    /\ UNCHANGED <<mode, drv, turns>>
    /\ UNCHANGED pipeVars

IntentRouter ==
    /\ Running /\ pc = "intent_router"
    /\ \E o \in IntentOracle :
          LET s2 == route_intent_node(g, o)
          IN  Advance("intent_router",
                      Node(s2, db, route_intent_calls(g, o)))

SecurityCheck ==
    /\ Running /\ pc = "security_check"
    /\ \E o \in IdentityOracle :
          LET s2 == security_check_node(g, o)
          IN  Advance("security_check",
                      Node(s2, db, security_check_calls(g, o)))

CardAgent ==
    /\ Running /\ pc = "card_atm_agent"
    /\ \E o \in CardOracle :
          LET res == card_atm_agent_node(g, db, o)
          IN  Advance("card_atm_agent", res)

AccountAgent ==
    /\ Running /\ pc = "account_servicing_agent"
    /\ \E o \in AccountOracle :
          LET res == account_servicing_agent_node(g, db, o)
          IN  Advance("account_servicing_agent", res)

OpeningAgent ==
    /\ Running /\ pc = "opening_agent"
    /\ \E email_match \in BOOLEAN :
          LET res == account_opening_agent_node(g, db, email_match)
          IN  Advance("opening_agent", res)

DigitalAgent ==
    /\ Running /\ pc = "digital_agent"
    /\ LET res == digital_support_agent_node(g, db)
       IN  Advance("digital_agent", res)

TransferAgent ==
    /\ Running /\ pc = "transfer_agent"
    /\ LET res == transfer_payment_agent_node(g, db)
       IN  Advance("transfer_agent", res)

ClosureAgent ==
    /\ Running /\ pc = "closure_agent"
    /\ LET res == account_closure_agent_node(g, db)
       IN  Advance("closure_agent", res)

GeneralInquiry ==
    /\ Running /\ pc = "general_inquiry_node"
    /\ LET res == general_inquiry_agent_node(g, db)
       IN  Advance("general_inquiry_node", res)

Escalation ==
    /\ Running /\ pc = "escalation"
    /\ LET res == human_escalation_node(g, db)
       IN  Advance("escalation", res)

(* The graph stops with an error once it has run MaxSteps nodes without
   reaching its end *)
RecursionLimit ==
    /\ pc \in GraphNodes /\ steps >= MaxSteps
    /\ pc' = "raised"
    /\ UNCHANGED <<mode, drv, g, steps, db, trace, op, ret, turns>>
    /\ UNCHANGED pipeVars

----------------------------------------------------------------------------
(* The drivers: one graph invocation per user turn *)

StartTurn(input) ==
    /\ turns < MaxTurns
    /\ drv' = input
    /\ g' = Invoke(g, input)
    /\ pc' = "intent_router"
    /\ steps' = 0
    /\ trace' = <<>>
    /\ op' = "ainvoke"
    /\ ret' = None
    /\ turns' = turns + 1
    /\ UNCHANGED <<mode, db>>
    /\ UNCHANGED pipeVars

(* websocket.py: append the user message, count the turn, reset
   needs_user_input, invoke *)
UserText ==
    /\ mode = "text" /\ pc = "idle"
    /\ StartTurn(Put([drv EXCEPT
          !.messages = Append(@, HumanMessage(Len(g.messages) + 1)),
          !.turn_count = @ + 1,
          !.needs_user_input = FALSE], {"needs_user_input"}))

(* voice_websocket.py agent_worker: append the user message, count the
   turn, invoke *)
UserSpeech ==
    /\ mode = "voice" /\ pc = "idle"
    /\ StartTurn([drv EXCEPT
          !.messages = Append(@, HumanMessage(Len(g.messages) + 1)),
          !.turn_count = @ + 1])

ResetFlow(state) ==
    Put([state EXCEPT !.flow_stage = None,
                      !.intent = None,
                      !.intent_confidence = ConfNone,
                      !.resume_node = None],
        {"flow_stage", "intent", "intent_confidence", "resume_node"})

(* websocket.py after ainvoke returned.  The result is stored first
   (initial_state = dict(result)); when a storage or transport call that
   follows raises ("failed"), the handler apologises and the loop goes on
   to wait for the next message, skipping the tests that end the session
   or reset the flow. *)
TextReturned ==
    /\ mode = "text" /\ pc = "returned"
    /\ \E failure \in {"none", "failed"} :
          IF failure = "none"
          THEN /\ pc' = IF g.escalation_requested THEN "closed" ELSE "idle"
               /\ drv' = IF ~g.escalation_requested
                            /\ g.flow_stage = "complete"
                         THEN ResetFlow(g) ELSE g
          ELSE /\ drv' = g
               /\ pc' = "idle"
    /\ op' = "driver"
    /\ ret' = None
    /\ steps' = 0
    /\ trace' = <<>>
    /\ UNCHANGED <<mode, g, db, turns>>
    /\ UNCHANGED pipeVars

(* voice_websocket.py agent_worker after ainvoke returned.  The result is
   stored (agent_state = result) only after the reply was logged and sent:
   when one of those calls raises ("before_store") the worker keeps the
   snapshot it had.  The state update and the session update follow the
   store ("after_store").  Either way the handler apologises and the loop
   goes on to the next transcript. *)
VoiceReturned ==
    /\ mode = "voice" /\ pc = "returned"
    /\ \E failure \in {"none", "before_store", "after_store"} :
          /\ failure = "before_store" =>
                \E i \in 1..Len(g.messages) : g.messages[i].role = "ai"
          /\ IF failure = "none"
             THEN /\ drv' = g
                  /\ pc' = IF g.escalation_requested
                              \/ g.flow_stage = "complete"
                           THEN "closed" ELSE "idle"
             ELSE /\ drv' = IF failure = "before_store" THEN drv ELSE g
                  /\ pc' = "idle"
    /\ op' = "driver"
    /\ ret' = None
    /\ steps' = 0
    /\ trace' = <<>>
    /\ UNCHANGED <<mode, g, db, turns>>
    /\ UNCHANGED pipeVars

(* Both drivers when ainvoke raised: apologise, keep the snapshot they had *)
InvokeRaised ==
    /\ pc = "raised"
    /\ pc' = "idle"
    /\ op' = "driver"
    /\ ret' = None
    /\ steps' = 0
    /\ trace' = <<>>
    /\ UNCHANGED <<mode, drv, g, db, turns>>
    /\ UNCHANGED pipeVars

(* The client disconnects or stops while the driver waits for the next
   user turn *)
Hangup ==
    /\ pc = "idle"
    /\ pc' = "closed"
    /\ UNCHANGED <<mode, drv, g, steps, db, trace, op, ret, turns>>
    /\ UNCHANGED pipeVars

----------------------------------------------------------------------------
(* The voice pipeline at rest.  Text sessions and functions applied on
   their own never start it. *)

(* audio_receiver, stt_worker, agent_worker, tts_worker *)
Tasks == {"audio_receiver", "stt_worker", "agent_worker", "tts_worker"}

SessionIds == {"s1", "s2", "s3"}

NothingReleased == [recognizer |-> 0, duration |-> 0, transport |-> 0]

(* The agent worker holds no transcript *)
NoTurn == [transcript |-> 0, result |-> None]

PipeIdle ==
    /\ main = "off"
    /\ task = [t \in Tasks |-> "unborn"]
    /\ cancelled = {}
    /\ shutdown_event = FALSE
    /\ stt_queue = <<>>
    /\ tts_queue = <<>>
    /\ placed = <<>>
    /\ state_lock = None
    /\ cur = NoTurn
    /\ inflight = {}
    /\ heard = <<>>
    /\ connection = FALSE
    /\ released = NothingReleased
    /\ active_connections = {}
    /\ wire = [id \in SessionIds |-> 0]

----------------------------------------------------------------------------
(* Sessions *)

Init ==
    /\ mode \in {"text", "voice"}
    /\ drv = IF mode = "text" THEN initial_state ELSE agent_state
    /\ g = agent_state
    /\ pc = "idle"
    /\ steps = 0
    /\ db = InitDb
    /\ trace = <<>>
    /\ op = None
    /\ ret = None
    /\ turns = 0
    /\ PipeIdle

Next ==
    \/ UserText
    \/ UserSpeech
    \/ IntentRouter
    \/ SecurityCheck
    \/ CardAgent
    \/ AccountAgent
    \/ OpeningAgent
    \/ DigitalAgent
    \/ TransferAgent
    \/ ClosureAgent
    \/ GeneralInquiry
    \/ Escalation
    \/ RecursionLimit
    \/ TextReturned
    \/ VoiceReturned
    \/ InvokeRaised
    \/ Hangup

Spec == Init /\ [][Next]_vars

----------------------------------------------------------------------------
(* The functions on their own: a router, an edge function or a guarded tool
   applied once to a snapshot the caller built, as the unit tests of the
   repository do.  drv keeps the argument, g the snapshot afterwards. *)

FnStages == {None, "awaiting_confirmation", "card_blocked", "complete"}

FnConfidences == {ConfNone, 0, 4, 5, 9}

FnResumes == {None, "security_check", "card_atm_agent"}

FnAbsent == {{}, {"intent"}, {"intent_confidence"}}

FnSnapshots ==
    {[initial_state EXCEPT
        !.messages = m,
        !.intent = IF "intent" \in ab THEN None ELSE i,
        !.intent_confidence =
            IF "intent_confidence" \in ab THEN ConfNone ELSE c,
        !.resume_node = r,
        !.flow_stage = f,
        !.authenticated = a,
        !.customer_id = IF a THEN "CUST1" ELSE None,
        !.needs_user_input = n,
        !.escalation_requested = e,
        !.absent = ab] :
        m \in {<<>>, <<HumanMessage(1)>>},
        i \in Intents \cup {None},
        c \in FnConfidences,
        r \in FnResumes,
        f \in FnStages,
        a \in BOOLEAN, n \in BOOLEAN, e \in BOOLEAN,
        ab \in FnAbsent}

InitFn ==
    /\ mode = "fn"
    /\ drv \in FnSnapshots
    /\ g = drv
    /\ pc = "fn_ready"
    /\ steps = 0
    /\ db = InitDb
    /\ trace = <<>>
    /\ op = None
    /\ ret = None
    /\ turns = 0
    /\ PipeIdle

Applied(name, state, store, calls, result) ==
    /\ pc = "fn_ready"
    /\ pc' = "fn_done"
    /\ g' = state
    /\ db' = store
    /\ trace' = calls
    /\ op' = name
    /\ ret' = result
    /\ UNCHANGED <<mode, drv, steps, turns>>
    /\ UNCHANGED pipeVars

(* route_intent_node, then the edge function on what it returned *)
FnRouteIntent ==
    \E o \in IntentOracle :
        LET s2 == route_intent_node(drv, o)
        IN  Applied("intent_router", s2, db, route_intent_calls(drv, o),
                    route_to_flow(s2))

FnRouteToFlow ==
    Applied("route_to_flow", drv, db, <<>>, route_to_flow(drv))

(* The edge function registered for a task node, on the snapshot as the
   node returned it *)
FnCompletion ==
    \E node \in {"card_atm_agent", "account_servicing_agent"} \cup StubNodes :
        Applied(node, drv, db, <<>>, PathFunction(node, drv))

GuardedTools == {"get_account_balance", "get_recent_transactions",
                 "block_card", "update_profile", "request_statement"}

Outcome(result) ==
    IF result.raised # None THEN result.raised
    ELSE IF result.success THEN "success" ELSE "failure"

FnTool ==
    \E tool \in GuardedTools, fails \in BOOLEAN,
       card_id \in SaidCards \ {None}, updates \in {{"email"}, {"address"}} :
        LET result ==
              IF tool = "get_account_balance"
              THEN get_account_balance(drv, db, "CUST1", fails)
              ELSE IF tool = "get_recent_transactions"
              THEN get_recent_transactions(drv, db, "CUST1")
              ELSE IF tool = "block_card"
              THEN block_card(drv, db, card_id, fails)
              ELSE IF tool = "update_profile"
              THEN update_profile(drv, db, "CUST1", updates, fails)
              ELSE request_statement(drv, db, "CUST1")
        IN  Applied(tool, result.state, result.db, <<tool>>, Outcome(result))

NextFn ==
    \/ FnRouteIntent
    \/ FnRouteToFlow
    \/ FnCompletion
    \/ FnTool

SpecFn == InitFn /\ [][NextFn]_vars

----------------------------------------------------------------------------
(* The nodes on their own: one node applied once to a snapshot the caller
   built, followed by the edge function registered for it.  drv keeps the
   argument, g the snapshot the node returned, ret the edge's answer. *)

MaxAttempts == 4       \* verification_attempts of a snapshot handed to a node

NodeSnapshots ==
    {[initial_state EXCEPT
        !.messages = <<HumanMessage(1)>>,
        !.intent = i,
        !.resume_node = r,
        !.flow_stage = f,
        !.verification_attempts = k,
        !.authenticated = a,
        !.customer_id = IF a THEN c ELSE None,
        !.needs_user_input = n,
        !.escalation_requested = e] :
        i \in Intents,
        c \in DOMAIN Pins,
        r \in {None, "security_check"},
        f \in {None, "awaiting_confirmation"},
        k \in 0..MaxAttempts,
        a \in BOOLEAN, n \in BOOLEAN, e \in BOOLEAN}

InitNode ==
    /\ mode = "node"
    /\ drv \in NodeSnapshots
    /\ g = drv
    /\ pc = "fn_ready"
    /\ steps = 0
    /\ db = InitDb
    /\ trace = <<>>
    /\ op = None
    /\ ret = None
    /\ turns = 0
    /\ PipeIdle

NodeSecurityCheck ==
    \E o \in IdentityOracle :
        LET s2 == security_check_node(drv, o)
        IN  Applied("security_check", s2, db, security_check_calls(drv, o),
                    check_auth_status(s2))

(* A stub node, then check_flow_completion through the node's path map *)
NodeStub ==
    \E node \in {"digital_agent", "transfer_agent"} :
        LET res == IF node = "digital_agent"
                   THEN digital_support_agent_node(drv, db)
                   ELSE transfer_payment_agent_node(drv, db)
        IN  Applied(node, res.s, res.db, res.calls,
                    PathFunction(node, res.s))

(* The card handler with every answer of its oracle, then its edge *)
NodeCardAgent ==
    \E o \in CardOracle :
        LET res == card_atm_agent_node(drv, db, o)
        IN  Applied("card_atm_agent", res.s, res.db, res.calls,
                    PathFunction("card_atm_agent", res.s))

NextNode ==
    \/ NodeSecurityCheck
    \/ NodeStub
    \/ NodeCardAgent

SpecNode == InitNode /\ [][NextNode]_vars

----------------------------------------------------------------------------
(* The registry of connections on its own: ConnectionManager and
   VoiceConnectionManager, whose methods any session's handler calls with
   its own id.  op is the method, trace its argument, ret "raised" when the
   handle's send raised. *)

connect(conns, session_id) == conns \cup {session_id}

disconnect(conns, session_id) ==
    IF session_id \in conns THEN conns \ {session_id} ELSE conns

(* A send that looks the handle up without testing for it: KeyError *)
send_json_unguarded(conns, sent, session_id, fails) ==
    IF session_id \notin conns
    THEN [wire |-> sent, raised |-> "raised"]
    ELSE IF fails THEN [wire |-> sent, raised |-> "raised"]
    ELSE [wire |-> [sent EXCEPT ![session_id] = @ + 1], raised |-> None]

(* send_json, send_bytes, send_message: fails says the handle's own send
   raises (the peer is gone) *)
send_json(conns, sent, session_id, fails) ==
    IF session_id \in conns
    THEN IF fails THEN [wire |-> sent, raised |-> "raised"]
         ELSE [wire |-> [sent EXCEPT ![session_id] = @ + 1],
               raised |-> None]
    ELSE [wire |-> sent, raised |-> None]

RegistryStep(name, session_id, conns, sent, result) ==
    /\ mode = "registry"
    /\ op' = name
    /\ trace' = <<session_id>>
    /\ ret' = result
    /\ active_connections' = conns
    /\ wire' = sent
    /\ UNCHANGED <<mode, drv, g, pc, steps, db, turns>>
    /\ UNCHANGED <<main, task, cancelled, shutdown_event, stt_queue,
                   tts_queue, placed, state_lock, cur, inflight, heard,
                   connection, released>>

RegistryConnect ==
    \E id \in SessionIds :
        RegistryStep("connect", id, connect(active_connections, id),
                     wire, None)

RegistryDisconnect ==
    \E id \in SessionIds :
        RegistryStep("disconnect", id, disconnect(active_connections, id),
                     wire, None)

RegistrySend ==
    \E id \in SessionIds, fails \in BOOLEAN :
        /\ wire[id] < MaxFrames
        /\ LET res == send_json(active_connections, wire, id, fails)
           IN  RegistryStep("send_json", id, active_connections,
                            res.wire, res.raised)

InitRegistry ==
    /\ mode = "registry"
    /\ drv = agent_state
    /\ g = agent_state
    /\ pc = "idle"
    /\ steps = 0
    /\ db = InitDb
    /\ trace = <<>>
    /\ op = None
    /\ ret = None
    /\ turns = 0
    /\ PipeIdle

NextRegistry ==
    \/ RegistryConnect
    \/ RegistryDisconnect
    \/ RegistrySend

SpecRegistry == InitRegistry /\ [][NextRegistry]_vars

----------------------------------------------------------------------------
(* The voice pipeline: handle_voice_websocket and its four tasks.  A step is
   what a task does between two awaits; `fails` says that an awaited
   storage, transport or vendor call raised.  What the graph does with a
   turn is the model above: here a turn has an outcome. *)

SessionId == "s1"

TurnOutcomes == {"suspend", "complete", "card_blocked", "escalate", "raised"}

FirstPosition ==
    [audio_receiver |-> "receive", stt_worker |-> "start_stream",
     agent_worker |-> "greeting", tts_worker |-> "get"]

Reply(turn, kind) == [turn |-> turn, kind |-> kind]

At(t, position) == task[t] = position /\ t \notin cancelled

Move(t, position) == task' = [task EXCEPT ![t] = position]

(* while not shutdown_event.is_set(): the test a worker makes when it comes
   back to the top of its loop, before it waits on its queue again *)
while_not_shutdown(event, position) == IF event THEN "done" ELSE position

(* The stop branch that only leaves the loop, without shutdown_event.set() *)
audio_receiver_stop_unsignalled(event) == event

(* audio_receiver on a "stop" frame, a disconnect or an error:
   shutdown_event.set() *)
audio_receiver_stop(event) == TRUE

(* The macro-step started with create_task and not awaited: the worker goes
   back to the turn queue *)
ainvoke_not_awaited == "get"

(* result = await agent_graph.ainvoke(...): the worker stays at the call
   until the graph returns or raises *)
ainvoke_awaited == "ainvoke"

(* create_voice_session and voice_manager.connect: when one of them raises
   the transport was never registered *)
MainConnect ==
    /\ main = "connect"
    /\ \E fails \in BOOLEAN :
          IF fails
          THEN /\ main' = "refused"
               /\ UNCHANGED active_connections
          ELSE /\ main' = "construct"
               /\ active_connections' = connect(active_connections, SessionId)
    /\ UNCHANGED <<task, cancelled, shutdown_event, stt_queue, tts_queue,
                   placed, state_lock, cur, inflight, heard, connection,
                   released, wire>>
    /\ UNCHANGED graphVars

(* The lazy imports, DeepgramSTT() and ElevenLabsTTS() *)
MainConstruct ==
    /\ main = "construct"
    /\ \E fails \in BOOLEAN :
          main' = IF fails THEN "raised" ELSE "session"
    /\ UNCHANGED <<task, cancelled, shutdown_event, stt_queue, tts_queue,
                   placed, state_lock, cur, inflight, heard, connection,
                   released, active_connections, wire>>
    /\ UNCHANGED graphVars

(* Send the session frame and create the four tasks *)
MainLaunch ==
    /\ main = "session"
    /\ \E fails \in BOOLEAN :
          IF fails
          THEN /\ main' = "finally"
               /\ UNCHANGED task
          ELSE /\ main' = "wait"
               /\ task' = FirstPosition
    /\ UNCHANGED <<cancelled, shutdown_event, stt_queue, tts_queue,
                   placed, state_lock, cur, inflight, heard, connection,
                   released, active_connections, wire>>
    /\ UNCHANGED graphVars

(* asyncio.wait(FIRST_COMPLETED) returned: set the event, cancel the rest *)
MainWake ==
    /\ main = "wait"
    /\ \E t \in Tasks : task[t] = "done"
    /\ shutdown_event' = TRUE
    /\ cancelled' = {t \in Tasks : task[t] # "done"}
    /\ main' = "gather"
    /\ UNCHANGED <<task, stt_queue, tts_queue, placed, state_lock, cur,
                   inflight, heard, connection, released,
                   active_connections, wire>>
    /\ UNCHANGED graphVars

(* gather over the pending tasks returned *)
MainGathered ==
    /\ main = "gather"
    /\ \A t \in Tasks : task[t] = "done"
    /\ main' = "finally"
    /\ UNCHANGED <<task, cancelled, shutdown_event, stt_queue, tts_queue,
                   placed, state_lock, cur, inflight, heard, connection,
                   released, active_connections, wire>>
    /\ UNCHANGED graphVars

(* finally: disconnect, stt.close(), close_session *)
MainFinally ==
    /\ main = "finally"
    /\ \E fails \in BOOLEAN :
          /\ main' = IF fails THEN "raised" ELSE "done"
          /\ released' =
                [recognizer |-> released.recognizer
                                + (IF connection THEN 1 ELSE 0),
                 duration |-> released.duration + (IF fails THEN 0 ELSE 1),
                 transport |-> released.transport
                               + (IF SessionId \in active_connections
                                  THEN 1 ELSE 0)]
    /\ active_connections' = disconnect(active_connections, SessionId)
    /\ connection' = FALSE
    /\ UNCHANGED <<task, cancelled, shutdown_event, stt_queue, tts_queue,
                   placed, state_lock, cur, inflight, heard, wire>>
    /\ UNCHANGED graphVars

(* CancelledError reaches a task at the await it is suspended in.  Only
   stt_worker has a finally clause; cancelled inside that clause it leaves
   the stream as it is. *)
Cancelled ==
    \E t \in cancelled :
        /\ task[t] \notin {"done", "appended", "stored"}
        /\ Move(t, IF t = "stt_worker" /\ task[t] # "finally"
                   THEN "finally" ELSE "done")
        /\ cancelled' = cancelled \ {t}
        /\ inflight' = IF t = "agent_worker" THEN {} ELSE inflight
        /\ UNCHANGED <<main, shutdown_event, stt_queue, tts_queue, placed,
                       state_lock, cur, heard, connection, released,
                       active_connections, wire>>
        /\ UNCHANGED graphVars

(* audio_receiver: a "stop" frame, a disconnect or an error *)
AudioReceiverStop ==
    /\ At("audio_receiver", "receive")
    /\ shutdown_event' = audio_receiver_stop(shutdown_event)
    /\ Move("audio_receiver", "done")
    /\ UNCHANGED <<main, cancelled, stt_queue, tts_queue, placed,
                   state_lock, cur, inflight, heard, connection, released,
                   active_connections, wire>>
    /\ UNCHANGED graphVars

(* A task leaves its loop: stt_worker to its finally clause, the others to
   their end *)
ObserveShutdown(t, position) ==
    /\ At(t, position)
    /\ Move(t, IF t = "stt_worker" THEN "finally" ELSE "done")
    /\ UNCHANGED <<main, cancelled, shutdown_event, stt_queue, tts_queue,
                   placed, state_lock, cur, inflight, heard, connection,
                   released, active_connections, wire>>
    /\ UNCHANGED graphVars

AudioReceiverExit ==
    /\ shutdown_event
    /\ ObserveShutdown("audio_receiver", "receive")

(* stt.start_stream and the first status frame *)
SttStart ==
    /\ At("stt_worker", "start_stream")
    /\ \E outcome \in {"refused", "opened", "listening"} :
          /\ connection' = (outcome # "refused")
          /\ Move("stt_worker",
                  IF outcome = "listening" THEN "listening" ELSE "finally")
    /\ UNCHANGED <<main, cancelled, shutdown_event, stt_queue, tts_queue,
                   placed, state_lock, cur, inflight, heard, released,
                   active_connections, wire>>
    /\ UNCHANGED graphVars

(* on_message and on_transcript for the transcript event number n, called
   by the recognizer's listener while the stream is open (results with blank
   text are dropped before the callback and are not counted).  The frame is
   relayed for interim and final events; a final one is then logged and
   queued.  When the relay or log_transcript raises, the listener swallows
   the error and nothing is queued. *)
on_transcript(queue, n, is_final, fails) ==
    IF is_final /\ ~fails THEN Append(queue, n) ELSE queue

OnTranscript ==
    /\ connection
    /\ Len(heard) < MaxTranscripts
    /\ \E is_final \in BOOLEAN, fails \in BOOLEAN :
          /\ heard' = Append(heard, is_final)
          /\ stt_queue' = on_transcript(stt_queue, Len(heard) + 1,
                                        is_final, fails)
    /\ UNCHANGED <<main, task, cancelled, shutdown_event, tts_queue, placed,
                   state_lock, cur, inflight, connection, released,
                   active_connections, wire>>
    /\ UNCHANGED graphVars

SttExit ==
    /\ shutdown_event
    /\ ObserveShutdown("stt_worker", "listening")

(* send_audio raised *)
SttFailed ==
    /\ connection
    /\ ObserveShutdown("stt_worker", "listening")

(* finally: await stt.close() *)
SttClose ==
    /\ At("stt_worker", "finally")
    /\ released' = [released EXCEPT !.recognizer =
                       @ + (IF connection THEN 1 ELSE 0)]
    /\ connection' = FALSE
    /\ Move("stt_worker", "done")
    /\ UNCHANGED <<main, cancelled, shutdown_event, stt_queue, tts_queue,
                   placed, state_lock, cur, inflight, heard,
                   active_connections, wire>>
    /\ UNCHANGED graphVars

(* The greeting is queued and logged before the try block *)
AgentGreet ==
    /\ At("agent_worker", "greeting")
    /\ tts_queue' = Append(tts_queue, Reply(0, "greeting"))
    /\ placed' = Append(placed, Reply(0, "greeting"))
    /\ \E fails \in BOOLEAN :
          Move("agent_worker",
               IF fails THEN "done"
               ELSE while_not_shutdown(shutdown_event, "get"))
    /\ UNCHANGED <<main, cancelled, shutdown_event, stt_queue, state_lock,
                   cur, inflight, heard, connection, released,
                   active_connections, wire>>
    /\ UNCHANGED graphVars

AgentExit ==
    /\ shutdown_event
    /\ ObserveShutdown("agent_worker", "get")

(* wait_for(stt_queue.get(), 1.0) returned a transcript *)
AgentDequeue ==
    /\ At("agent_worker", "get")
    /\ stt_queue # <<>>
    /\ cur' = [transcript |-> Head(stt_queue), result |-> None]
    /\ stt_queue' = Tail(stt_queue)
    /\ Move("agent_worker", "thinking")
    /\ UNCHANGED <<main, cancelled, shutdown_event, tts_queue, placed,
                   state_lock, inflight, heard, connection, released,
                   active_connections, wire>>
    /\ UNCHANGED graphVars

(* The "thinking" status frame, then: async with state_lock, append the
   user message and count the turn.  The frame is sent outside the inner
   try block: when it raises the outer handler logs it and the worker
   ends. *)
AgentAppend ==
    /\ At("agent_worker", "thinking")
    /\ \E fails \in BOOLEAN :
          IF fails
          THEN /\ Move("agent_worker", "done")
               /\ UNCHANGED state_lock
          ELSE /\ Move("agent_worker", "appended")
               /\ state_lock' = "agent_worker"
    /\ UNCHANGED <<main, cancelled, shutdown_event, stt_queue, tts_queue,
                   placed, cur, inflight, heard, connection, released,
                   active_connections, wire>>
    /\ UNCHANGED graphVars

(* The lock is left; agent_graph.ainvoke(agent_state, config) starts *)
AgentInvoke ==
    /\ task["agent_worker"] = "appended"
    /\ state_lock' = None
    /\ inflight' = inflight \cup {cur.transcript}
    /\ Move("agent_worker", ainvoke_awaited)
    /\ UNCHANGED <<main, cancelled, shutdown_event, stt_queue, tts_queue,
                   placed, cur, heard, connection, released,
                   active_connections, wire>>
    /\ UNCHANGED graphVars

(* ainvoke returns a snapshot or raises *)
AgentReturn ==
    /\ At("agent_worker", "ainvoke")
    /\ \E outcome \in TurnOutcomes :
          /\ cur' = [cur EXCEPT !.result = outcome]
          /\ Move("agent_worker",
                  IF outcome = "raised" THEN "except" ELSE "returned")
    /\ inflight' = inflight \ {cur.transcript}
    /\ UNCHANGED <<main, cancelled, shutdown_event, stt_queue, tts_queue,
                   placed, state_lock, heard, connection, released,
                   active_connections, wire>>
    /\ UNCHANGED graphVars

(* Log and send the reply, queue it for synthesis, then: async with
   state_lock, agent_state = result *)
AgentReply ==
    /\ At("agent_worker", "returned")
    /\ \E fails \in BOOLEAN :
          IF fails
          THEN /\ Move("agent_worker", "except")
               /\ UNCHANGED <<tts_queue, placed, state_lock>>
          ELSE /\ tts_queue' = Append(tts_queue,
                                      Reply(cur.transcript, "reply"))
               /\ placed' = Append(placed, Reply(cur.transcript, "reply"))
               /\ state_lock' = "agent_worker"
               /\ Move("agent_worker", "stored")
    /\ UNCHANGED <<main, cancelled, shutdown_event, stt_queue, cur,
                   inflight, heard, connection, released,
                   active_connections, wire>>
    /\ UNCHANGED graphVars

(* The lock is left *)
AgentStored ==
    /\ task["agent_worker"] = "stored"
    /\ state_lock' = None
    /\ Move("agent_worker", "update")
    /\ UNCHANGED <<main, cancelled, shutdown_event, stt_queue, tts_queue,
                   placed, cur, inflight, heard, connection, released,
                   active_connections, wire>>
    /\ UNCHANGED graphVars

(* The state_update frame and update_session, then the test that ends the
   session *)
AgentUpdate ==
    /\ At("agent_worker", "update")
    /\ \E fails \in BOOLEAN :
          Move("agent_worker",
               IF fails THEN "except"
               ELSE IF cur.result \in {"escalate", "complete"}
               THEN "grace"
               ELSE while_not_shutdown(shutdown_event, "get"))
    /\ cur' = [cur EXCEPT !.result = None]
    /\ UNCHANGED <<main, cancelled, shutdown_event, stt_queue, tts_queue,
                   placed, state_lock, inflight, heard, connection,
                   released, active_connections, wire>>
    /\ UNCHANGED graphVars

(* asyncio.sleep(2) is over: shutdown_event.set(); break *)
AgentGrace ==
    /\ At("agent_worker", "grace")
    /\ shutdown_event' = TRUE
    /\ Move("agent_worker", "done")
    /\ UNCHANGED <<main, cancelled, stt_queue, tts_queue, placed,
                   state_lock, cur, inflight, heard, connection, released,
                   active_connections, wire>>
    /\ UNCHANGED graphVars

(* except Exception inside the loop: queue the apology, send it; when that
   send raises the outer handler logs it and the worker ends *)
AgentExcept ==
    /\ At("agent_worker", "except")
    /\ tts_queue' = Append(tts_queue, Reply(cur.transcript, "apology"))
    /\ placed' = Append(placed, Reply(cur.transcript, "apology"))
    /\ \E fails \in BOOLEAN :
          Move("agent_worker",
               IF fails THEN "done"
               ELSE while_not_shutdown(shutdown_event, "get"))
    /\ cur' = [cur EXCEPT !.result = None]
    /\ UNCHANGED <<main, cancelled, shutdown_event, stt_queue, state_lock,
                   inflight, heard, connection, released,
                   active_connections, wire>>
    /\ UNCHANGED graphVars

TtsExit ==
    /\ shutdown_event
    /\ ObserveShutdown("tts_worker", "get")

(* wait_for(tts_queue.get(), 1.0) returned a text and the "speaking" status
   frame is sent; when that frame raises the outer handler logs it and the
   worker ends *)
TtsDequeue ==
    /\ At("tts_worker", "get")
    /\ tts_queue # <<>>
    /\ tts_queue' = Tail(tts_queue)
    /\ \E fails \in BOOLEAN :
          Move("tts_worker", IF fails THEN "done" ELSE "speaking")
    /\ UNCHANGED <<main, cancelled, shutdown_event, stt_queue, placed,
                   state_lock, cur, inflight, heard, connection, released,
                   active_connections, wire>>
    /\ UNCHANGED graphVars

(* The inner try block: the chunks of tts.stream(text) are sent as audio
   frames in the order they are generated (the loop is left early once
   shutdown_event is set), then the audio_end frame.  When the synthesizer
   or a send raises, the except clause logs it: no audio_end frame. *)
TtsStream ==
    /\ At("tts_worker", "speaking")
    /\ \E fails \in BOOLEAN :
          Move("tts_worker", IF fails THEN "failed" ELSE "audio_end")
    /\ UNCHANGED <<main, cancelled, shutdown_event, stt_queue, tts_queue,
                   placed, state_lock, cur, inflight, heard, connection,
                   released, active_connections, wire>>
    /\ UNCHANGED graphVars

(* After the inner try block: the "listening" status frame unless
   shutdown_event is set, then back to the queue; a frame that raises ends
   the worker *)
TtsListening ==
    /\ task["tts_worker"] \in {"audio_end", "failed"}
    /\ "tts_worker" \notin cancelled
    /\ \E fails \in BOOLEAN :
          /\ fails => ~shutdown_event
          /\ Move("tts_worker",
                  IF fails THEN "done"
                  ELSE while_not_shutdown(shutdown_event, "get"))
    /\ UNCHANGED <<main, cancelled, shutdown_event, stt_queue, tts_queue,
                   placed, state_lock, cur, inflight, heard, connection,
                   released, active_connections, wire>>
    /\ UNCHANGED graphVars

InitPipe ==
    /\ mode = "pipeline"
    /\ drv = agent_state
    /\ g = agent_state
    /\ pc = "idle"
    /\ steps = 0
    /\ db = InitDb
    /\ trace = <<>>
    /\ op = None
    /\ ret = None
    /\ turns = 0
    /\ main = "connect"
    /\ task = [t \in Tasks |-> "unborn"]
    /\ cancelled = {}
    /\ shutdown_event = FALSE
    /\ stt_queue = <<>>
    /\ tts_queue = <<>>
    /\ placed = <<>>
    /\ state_lock = None
    /\ cur = NoTurn
    /\ inflight = {}
    /\ heard = <<>>
    /\ connection = FALSE
    /\ released = NothingReleased
    /\ active_connections = {}
    /\ wire = [id \in SessionIds |-> 0]

NextPipe ==
    \/ MainConnect
    \/ MainConstruct
    \/ MainLaunch
    \/ MainWake
    \/ MainGathered
    \/ MainFinally
    \/ Cancelled
    \/ AudioReceiverStop
    \/ AudioReceiverExit
    \/ SttStart
    \/ OnTranscript
    \/ SttExit
    \/ SttFailed
    \/ SttClose
    \/ AgentGreet
    \/ AgentExit
    \/ AgentDequeue
    \/ AgentAppend
    \/ AgentInvoke
    \/ AgentReturn
    \/ AgentReply
    \/ AgentStored
    \/ AgentUpdate
    \/ AgentGrace
    \/ AgentExcept
    \/ TtsExit
    \/ TtsDequeue
    \/ TtsStream
    \/ TtsListening

SpecPipe == InitPipe /\ [][NextPipe]_vars

(* The event loop runs every task that is ready and every awaited call
   returns or raises: each step of the handler and of its tasks that stays
   possible is taken.  What the client and the recognizer send is not
   forced. *)
FairPipe ==
    /\ WF_vars(MainWake) /\ WF_vars(MainGathered) /\ WF_vars(MainFinally)
    /\ WF_vars(Cancelled)
    /\ WF_vars(AudioReceiverExit)
    /\ WF_vars(SttStart) /\ WF_vars(SttExit) /\ WF_vars(SttClose)
    /\ WF_vars(AgentGreet) /\ WF_vars(AgentExit) /\ WF_vars(AgentAppend)
    /\ WF_vars(AgentInvoke) /\ WF_vars(AgentReturn) /\ WF_vars(AgentReply)
    /\ WF_vars(AgentStored) /\ WF_vars(AgentUpdate) /\ WF_vars(AgentGrace)
    /\ WF_vars(AgentExcept)
    /\ WF_vars(TtsExit) /\ WF_vars(TtsStream) /\ WF_vars(TtsListening)

SpecPipeFair == InitPipe /\ [][NextPipe]_vars /\ FairPipe

----------------------------------------------------------------------------
(* Properties *)

Last(seq) == seq[Len(seq)]

Called(name) == \E i \in 1..Len(trace) : trace[i] = name

(* C1: the failed-authentication counter stays within 0..3, every failed
   PIN check (customer id and PIN extracted, verification returns false)
   increases it by exactly 1, and no other transition changes it. *)
C1_CounterMovesOnlyOnFailedPin ==
    [][/\ g'.verification_attempts \in 0..3
       /\ IF /\ pc = "security_check" /\ steps' = steps + 1
             /\ Last(trace') = "verify_pin" /\ ~g'.authenticated
          THEN g'.verification_attempts = g.verification_attempts + 1
          ELSE g'.verification_attempts = g.verification_attempts]_vars

(* C2: when a failed PIN check brings the counter to 3 the turn ends with
   the session escalated: escalation requested, with the reason that
   refers to the 3 failed attempts, without a further user turn. *)
C2_ExhaustionEscalatesSameTurn ==
    (/\ pc = "returned"
     /\ Called("verify_pin") /\ ~g.authenticated
     /\ g.verification_attempts = 3)
    => (/\ g.escalation_requested
        /\ g.escalation_reason = "Failed authentication after 3 attempts")

(* C3: escalation is terminal: once escalation_requested is true it stays
   true, no classification, authentication or task handler runs and no
   further user turn is handed to the graph, in the text driver and in the
   voice pipeline alike. *)
C3_EscalationIsTerminal ==
    [][g.escalation_requested
       => (/\ g'.escalation_requested
           /\ turns' = turns
           /\ ~(/\ pc \in GraphNodes \ {"escalation"}
                /\ steps' = steps + 1))]_vars

(* C4: card blocking is a two-phase gate: a card-handler step that asks for
   confirmation does not invoke the blocking operation and suspends
   (needs_user_input, resume point the card handler, flow stage
   awaiting_confirmation), and the blocking operation is invoked only on a
   turn that was preceded by such a confirmation prompt. *)
C4_BlockOnlyAfterConfirmationPrompt ==
    [][(pc = "card_atm_agent" /\ steps' = steps + 1)
       => (/\ Last(trace') = "confirmation_needed"
              => (/\ db' = db
                  /\ g'.critical_actions_taken = g.critical_actions_taken
                  /\ g'.needs_user_input
                  /\ g'.resume_node = "card_atm_agent"
                  /\ g'.flow_stage = "awaiting_confirmation")
           /\ Last(trace') \in {"block_card", "block_card!"}
              => g.flow_stage = "awaiting_confirmation")]_vars

(* C5: every operation guarded by requires_auth, called with a snapshot
   that is not authenticated, fails with AuthenticationRequired without
   running: storage is unchanged and nothing is appended to
   critical_actions_taken. *)
C5_UnauthenticatedCallIsRefused ==
    (pc = "fn_done" /\ op \in GuardedTools /\ ~drv.authenticated)
    => (/\ ret = "AuthenticationRequired"
        /\ db = InitDb
        /\ g.critical_actions_taken = drv.critical_actions_taken
        /\ g = drv)

C5_Witness ==
    /\ pc = "fn_done" /\ op = "block_card" /\ ~drv.authenticated
    /\ ret = "AuthenticationRequired"
    /\ db.cards["c1"] = "active"

Routed == pc = "fn_done" /\ op \in {"route_to_flow", "intent_router"}

(* C6: with no resume point, every intent of the closed set at a confidence
   of at least 0.5 is routed to its documented destination: the four
   sensitive intents to the security check, account opening to the opening
   handler, digital support to the digital handler, general inquiry to the
   general handler. *)
C6_RoutingTable ==
    (/\ Routed
     /\ g.resume_node = None
     /\ g.absent = {}
     /\ g.intent \in Intents
     /\ g.intent_confidence >= 5)
    => ret = IF g.intent \in {"card_atm", "account_servicing",
                              "transfer_payment", "account_closure"}
             THEN "security_check"
             ELSE IF g.intent = "account_opening" THEN "opening_agent"
             ELSE IF g.intent = "digital_support" THEN "digital_agent"
             ELSE "general_inquiry_node"

C6_Witness ==
    /\ Routed /\ op = "route_to_flow"
    /\ g.resume_node = None /\ g.absent = {}
    /\ g.intent = "account_closure" /\ g.intent_confidence = 5
    /\ ret = "security_check"

(* C7: with no resume point, a confidence below 0.5, or no confidence in the
   snapshot, is routed to the general-inquiry handler whatever the intent,
   and from that handler the turn reaches neither the security check nor a
   task handler. *)
C7_LowConfidenceGoesToGeneral ==
    (/\ Routed
     /\ g.resume_node = None
     /\ \/ "intent_confidence" \in g.absent
        \/ g.intent_confidence \in 0..4)
    => (/\ ret = "general_inquiry_node"
        /\ \A key \in PathMap(ret) :
              Destination(ret, key) \in {ret, "returned"})

C7_Witness ==
    /\ Routed /\ op = "intent_router"
    /\ g.resume_node = None
    /\ g.intent = "card_atm" /\ g.intent_confidence = 4
    /\ ret = "general_inquiry_node"

(* C8: a turn that starts with a resume point set skips the classification:
   the router does not call the oracle and returns the snapshot unchanged
   (intent and confidence included), and control goes to the handler the
   resume point names, whatever the intent and the confidence. *)
C8_ResumeSkipsClassification ==
    [][(pc = "intent_router" /\ steps' = steps + 1
        /\ g.resume_node # None)
       => (/\ g' = g
           /\ trace' = trace \o <<"intent_router">>
           /\ ret' = g.resume_node
           /\ pc' = g.resume_node)]_vars

C8_Witness ==
    /\ pc = "card_atm_agent" /\ op = "intent_router"
    /\ g.resume_node = "card_atm_agent"
    /\ trace = <<"intent_router">>
    /\ turns > 1

CompletionNodes == {"card_atm_agent", "account_servicing_agent"} \cup StubNodes

(* C9: each completion check (card, account, stub) answers in strict
   priority order: escalation requested -> escalation; else needs user
   input -> end of turn; else terminal flow stage -> complete; else the
   same handler again. *)
C9_CompletionPriority ==
    (pc = "fn_done" /\ op \in CompletionNodes)
    => ret = IF drv.escalation_requested THEN "escalation"
             ELSE IF drv.needs_user_input THEN "__end__"
             ELSE IF drv.flow_stage = "complete" THEN "complete"
             ELSE IF drv.flow_stage = "card_blocked"
                     /\ op = "card_atm_agent" THEN "complete"
             ELSE op

(* C10: classification fails soft: with no resume point, a transcript
   without a user turn gives general_inquiry at 0.5 without an oracle call,
   a failed oracle call gives general_inquiry at 0.3; every other field of
   the snapshot is unchanged and the edge leads on to a node of the graph. *)
C10_ClassificationFailsSoft ==
    (/\ pc = "fn_done" /\ op = "intent_router"
     /\ drv.resume_node = None
     /\ ~HasHuman(drv.messages) \/ trace = <<"oracle!">>)
    => (/\ ~HasHuman(drv.messages) => trace = <<>>
        /\ g.intent = "general_inquiry"
        /\ g.intent_confidence = IF HasHuman(drv.messages) THEN 3 ELSE 5
        /\ \A f \in DOMAIN drv \ {"intent", "intent_confidence", "absent"} :
              g[f] = drv[f]
        /\ ret = "general_inquiry_node"
        /\ Destination("intent_router", ret) = "general_inquiry_node")

C10_Witness ==
    /\ pc = "fn_done" /\ op = "intent_router"
    /\ trace = <<"oracle!">>
    /\ drv.intent = "card_atm" /\ drv.intent_confidence = 9
    /\ g.intent = "general_inquiry" /\ g.intent_confidence = 3
    /\ ret = "general_inquiry_node"


(* The last graph invocation of the session ended in the Completed outcome:
   its handler left a terminal flow stage and neither suspended nor
   escalated *)
Completed(state) ==
    /\ state.flow_stage \in {"complete", "card_blocked"}
    /\ ~state.escalation_requested
    /\ ~state.needs_user_input

(* C11: after a turn whose outcome is Completed (flow stage "complete" or
   "card_blocked"), the next user turn enters the graph at the intent router
   with intent, flow stage and resume point unset, while the authenticated
   flag and the customer id are the ones the session had. *)
C11_CompletedTurnResetsFlow ==
    [][(pc = "idle" /\ pc' = "intent_router" /\ Completed(g))
         => /\ g'.intent = None
            /\ g'.flow_stage = None
            /\ g'.resume_node = None
            /\ g'.authenticated = g.authenticated
            /\ g'.customer_id = g.customer_id]_vars

(* Every task of the pipeline has ended *)
AllTerminated == \A t \in Tasks : task[t] = "done"

(* C12: in a voice session, once the audio receiver has ended on a "stop"
   frame or a disconnect, the cancellation signal is set, and from then on
   the session reaches a state where all four tasks have ended, whatever
   the other three were doing. *)
C12_StopTerminatesAllStages ==
    /\ [](task["audio_receiver"] = "done" => shutdown_event)
    /\ (task["audio_receiver"] = "done") ~> AllTerminated

(* The audio receiver has just ended on a frame while the recognizer
   listens, a graph invocation runs and a reply is being spoken *)
C12_Witness ==
    /\ task["audio_receiver"] = "done"
    /\ shutdown_event
    /\ main = "wait"
    /\ task["stt_worker"] = "listening"
    /\ task["agent_worker"] = "ainvoke"
    /\ task["tts_worker"] = "speaking"

(* C13: transcripts are processed in the order they were queued, and the
   replies put on the synthesis queue, apologies included, follow the same
   order with one reply per turn: each later reply belongs to a later
   turn. *)
C13_RepliesInTranscriptOrder ==
    /\ \A i \in 1..Len(stt_queue) :
          /\ cur.transcript < stt_queue[i]
          /\ \A j \in 1..Len(stt_queue) :
                i < j => stt_queue[i] < stt_queue[j]
    /\ \A i, j \in 1..Len(placed) :
          i < j => placed[i].turn < placed[j].turn

(* C14: at most one graph invocation is in flight in a session: the agent
   worker never starts ainvoke for a transcript while the ainvoke of an
   earlier one has not returned. *)
C14_OneTurnInFlight == Cardinality(inflight) <= 1

(* The first transcript's invocation runs while the second waits in the
   turn queue *)
C14_Witness ==
    /\ inflight = {1}
    /\ stt_queue = <<2>>
    /\ task["agent_worker"] = "ainvoke"

(* C15: from appending the user turn, through the graph invocation, until
   the resulting snapshot is stored, the agent worker holds state_lock. *)
C15_SnapshotOnlyUnderLock ==
    task["agent_worker"] \in {"appended", "ainvoke", "returned", "stored"}
        => state_lock = "agent_worker"

(* The marks the handlers leave in the trace for a call that raised *)
FailureMarks ==
    {"oracle!", "block_card!", "get_card_details!", "get_account_balance!",
     "request_statement!", "update_profile!"}

(* C16: whenever the oracle or a banking operation raises inside the card or
   the account handler (a refused unauthenticated call included), the step
   of that handler returns the snapshot with escalation_requested set, the
   reason "Agent error" and one more agent message, and the graph goes on
   to the escalation node: the invocation does not raise. *)
C16_HandlerFailureEscalates ==
    [][(/\ pc \in {"card_atm_agent", "account_servicing_agent"}
        /\ op' = pc /\ steps' = steps + 1
        /\ Last(trace') \in FailureMarks)
         => /\ g'.escalation_requested
            /\ g'.escalation_reason = "Agent error"
            /\ g'.messages = Say(g)
            /\ ret' = "escalation"
            /\ pc' = "escalation"]_vars

(* An unauthenticated block_card call was refused inside the card handler
   and the handler escalated *)
C16_Witness ==
    /\ op = "card_atm_agent"
    /\ Last(trace) = "block_card!"
    /\ ~g.authenticated
    /\ g.escalation_reason = "Agent error"
    /\ pc = "escalation"

(* C17: every graph invocation terminates whatever the oracle and the
   banking operations answer: no handler can be entered without end.  In
   particular no step of a node sends the graph back to the same node with
   the snapshot the node was entered with, since the same answers would then
   repeat that step until the graph's step budget runs out and the
   invocation raises instead of suspending, completing or escalating. *)
C17_MacroStepTerminates ==
    [][(pc \in GraphNodes /\ steps' = steps + 1)
         => ~(pc' = pc /\ g' = g)]_vars

(* C18: in a voice session, when the graph returns from a turn with the
   session escalated or completed (flow stage "complete" or "card_blocked"),
   the driver ends the session: it does not go back to wait for another
   transcript. *)
C18_TerminalOutcomeEndsVoiceSession ==
    [][(/\ mode = "voice" /\ pc = "returned"
        /\ (g.escalation_requested \/ Completed(g)))
         => pc' = "closed"]_vars

(* C19: when the first task has ended the cancellation signal is set and
   the others are cancelled; the recognizer stream is closed, the duration
   recorded and the transport deregistered only when every task has ended,
   never more than once, and all three have happened once the handler has
   returned or raised. *)
C19_TeardownOrder ==
    /\ main \in {"gather", "finally", "done"}
          => shutdown_event \/ \A t \in Tasks : task[t] = "unborn"
    /\ released # NothingReleased
          => \A t \in Tasks : task[t] \in {"done", "unborn"}
    /\ \A r \in DOMAIN released : released[r] <= 1
    /\ main \in {"done", "raised"}
          => /\ ~connection
             /\ SessionId \notin active_connections
             /\ released.duration = 1

(* C20: a frame pushed to an id with no registered handle raises nothing,
   sends nothing and leaves the registry as it was; disconnecting an id
   removes that id's handle and no other, and changes nothing when the id
   is not registered. *)
C20_RegistryNoOps ==
    [][/\ (op' = "send_json" /\ trace'[1] \notin active_connections)
            => /\ ret' = None
               /\ wire' = wire
               /\ active_connections' = active_connections
       /\ op' = "disconnect"
            => /\ active_connections' = active_connections \ {trace'[1]}
               /\ \A id \in SessionIds \ {trace'[1]} :
                     id \in active_connections' <=> id \in active_connections
               /\ trace'[1] \notin active_connections
                     => active_connections' = active_connections
               /\ ret' = None]_vars

(* A frame was pushed to an unregistered id while another id is registered
   and has received frames *)
C20_Witness ==
    /\ op = "send_json"
    /\ trace[1] \notin active_connections
    /\ ret = None
    /\ \E id \in active_connections : wire[id] > 0

(* C21: every item on the turn queue is a final transcript event, interim
   events are never queued, and each final event delivered so far is queued
   exactly once: it waits in the queue once, or the agent worker has taken
   it. *)
C21_OnlyFinalsQueuedOnce ==
    /\ \A i \in 1..Len(stt_queue) : heard[stt_queue[i]]
    /\ \A i, j \in 1..Len(stt_queue) :
          stt_queue[i] = stt_queue[j] => i = j
    /\ \A n \in 1..Len(heard) :
          heard[n] => \/ \E i \in 1..Len(stt_queue) : stt_queue[i] = n
                      \/ n <= cur.transcript

(* C22: while the session is not cancelled, the synthesis worker that
   sent the "speaking" status for a reply sends the audio_end marker next
   (after the reply's audio chunks) and only then the "listening" status:
   it never leaves a "speaking" status without an audio_end, also when the
   synthesizer fails during the utterance. *)
C22_SpeakingEndsWithAudioEnd ==
    [][(/\ task["tts_worker"] = "speaking"
        /\ task'["tts_worker"] # "speaking"
        /\ ~shutdown_event /\ "tts_worker" \notin cancelled)
         => task'["tts_worker"] = "audio_end"]_vars

(* The agent worker is between taking a transcript and being back at the
   turn queue *)
InTurn ==
    task["agent_worker"] \in
        {"thinking", "appended", "ainvoke", "returned", "stored", "update",
         "except"}

(* C23: whatever raises while the agent worker processes a turn (the graph
   invocation, a frame sent to the client, a storage call), the worker
   does not end and does not set shutdown_event: unless it is cancelled it
   stays in the turn or returns to the turn queue, and an error leads to the
   apology being queued. *)
C23_TurnErrorsBecomeApologies ==
    [][(/\ InTurn /\ "agent_worker" \notin cancelled
        /\ task'["agent_worker"] # task["agent_worker"])
         => /\ task'["agent_worker"] # "done"
            /\ shutdown_event' = shutdown_event]_vars

(* C24: a stage whose vendor failed exits: the recognition worker that
   reached its finally clause and the synthesis worker whose utterance
   failed take no further work (after which the handler sets the signal
   and tears the session down). *)
C24_VendorFailureEndsStage ==
    [][/\ task["stt_worker"] = "finally"
            => task'["stt_worker"] \in {"finally", "done"}
       /\ task["tts_worker"] = "failed"
            => task'["tts_worker"] \in {"failed", "done"}]_vars

(* C25: when security_check is entered with authenticated already true,
   the snapshot comes back unchanged, neither the oracle nor verify_pin is
   called, and the graph goes on to the handler of the classified intent. *)
C25_AuthenticatedPassesThrough ==
    [][(pc = "security_check" /\ steps' = steps + 1 /\ g.authenticated)
         => /\ g' = g
            /\ trace' = Append(trace, "security_check")
            /\ g.intent \in DOMAIN auth_intent_to_node
            /\ pc' = auth_intent_to_node[g.intent]]_vars

(* C26: entered unauthenticated with verification_attempts >= 3,
   security_check escalates with reason "Failed authentication after 3
   attempts", calls neither the oracle nor verify_pin, and leaves the
   session unauthenticated whatever PIN the utterance carries. *)
C26_AttemptLimitFirst ==
    (/\ op = "security_check"
     /\ ~drv.authenticated
     /\ drv.verification_attempts >= 3)
      => /\ g.escalation_requested
         /\ g.escalation_reason = "Failed authentication after 3 attempts"
         /\ ~g.authenticated
         /\ g.verification_attempts = drv.verification_attempts
         /\ trace = <<>>
         /\ ret = "escalation"

(* security_check applied to an unauthenticated snapshot whose counter is
   exactly 3 *)
C26_Witness ==
    /\ op = "security_check"
    /\ ~drv.authenticated
    /\ drv.verification_attempts = 3
    /\ g.escalation_requested
    /\ Len(g.messages) = Len(drv.messages) + 1

(* C27: a security_check step whose PIN verification succeeds sets
   authenticated, stores the verified customer id, clears resume_node and
   needs_user_input, leaves verification_attempts as it was, and hands
   control to the handler of the classified intent (card, account, transfer
   or closure). *)
C27_SuccessfulPinReachesHandler ==
    [][(/\ pc = "security_check" /\ steps' = steps + 1
        /\ ~g.authenticated /\ g'.authenticated)
         => /\ g'.customer_id \in DOMAIN Pins
            /\ g'.resume_node = None
            /\ ~g'.needs_user_input
            /\ g'.verification_attempts = g.verification_attempts
            /\ g.intent \in DOMAIN auth_intent_to_node
            /\ pc' = auth_intent_to_node[g.intent]]_vars

(* C28: an oracle failure, an extraction without identity information and
   an extraction with a customer id alone consume no attempt:
   verification_attempts is unchanged, authenticated stays false, one
   prompt is appended and the node suspends with needs_user_input true and
   resume_node = security_check. *)
C28_SoftFailuresConsumeNoAttempt ==
    (/\ op = "security_check"
     /\ ~drv.authenticated
     /\ drv.verification_attempts < 3
     /\ ~Called("verify_pin") /\ ~Called("verify_pin!"))
      => /\ g.verification_attempts = drv.verification_attempts
         /\ ~g.authenticated
         /\ g.needs_user_input
         /\ g.resume_node = "security_check"
         /\ Len(g.messages) = Len(drv.messages) + 1
         /\ Last(g.messages).role = "ai"

(* security_check met an oracle failure on a snapshot with one attempt
   already counted *)
C28_Witness ==
    /\ op = "security_check"
    /\ trace = <<"oracle!">>
    /\ drv.verification_attempts = 1
    /\ g.verification_attempts = 1
    /\ g.needs_user_input

(* C29: every step of the card handler or of the account handler, for
   every oracle action and every operation result, returns a snapshot with
   exactly one agent reply appended. *)
C29_HandlerAlwaysReplies ==
    [][(/\ pc \in {"card_atm_agent", "account_servicing_agent"}
        /\ steps' = steps + 1)
         => /\ Len(g'.messages) = Len(g.messages) + 1
            /\ Last(g'.messages).role = "ai"]_vars

(* C30: the digital-support and transfer/payment nodes escalate on every
   snapshot: the result has escalation_requested with a reason, one reply
   appended, no tool called and the store untouched, needs_user_input and
   flow_stage as they came in, and the edge answers escalation, never END
   and never the node again. *)
C30_StubsEscalateUnconditionally ==
    op \in {"digital_agent", "transfer_agent"}
      => /\ g.escalation_requested
         /\ g.escalation_reason # None
         /\ Len(g.messages) = Len(drv.messages) + 1
         /\ trace = <<>>
         /\ db = InitDb
         /\ g.needs_user_input = drv.needs_user_input
         /\ g.flow_stage = drv.flow_stage
         /\ ret = "escalation"

(* The transfer node applied to a snapshot that came in waiting for user
   input and not escalated *)
C30_Witness ==
    /\ op = "transfer_agent"
    /\ drv.needs_user_input
    /\ ~drv.escalation_requested
    /\ g.escalation_requested
    /\ ret = "escalation"

(* C31: a closure_agent step reached by classification (resume_node is not
   closure_agent) appends one retention prompt and suspends with flow_stage
   retention_attempt and resume_node = closure_agent, without escalating;
   a closure_agent step reached by resumption escalates. *)
C31_ClosureRetentionThenEscalation ==
    [][(pc = "closure_agent" /\ steps' = steps + 1)
         => IF g.resume_node # "closure_agent"
            THEN /\ g'.flow_stage = "retention_attempt"
                 /\ g'.needs_user_input
                 /\ g'.resume_node = "closure_agent"
                 /\ g'.escalation_requested = g.escalation_requested
                 /\ Len(g'.messages) = Len(g.messages) + 1
                 /\ pc' = IF g.escalation_requested
                          THEN "escalation" ELSE "returned"
            ELSE /\ g'.escalation_requested
                 /\ pc' = "escalation"]_vars

IsPrefix(a, b) == Len(a) <= Len(b) /\ SubSeq(b, 1, Len(a)) = a

Blocked(store) == {c \in DOMAIN store.cards : store.cards[c] = "blocked"}

(* C32: critical_actions_taken only grows at its end, and it grows by one
   CARD_BLOCKED entry exactly in the steps in which block_card turned a card
   of the store to blocked. *)
C32_CriticalActionsMatchBlocks ==
    [][/\ IsPrefix(g.critical_actions_taken, g'.critical_actions_taken)
       /\ (g'.critical_actions_taken # g.critical_actions_taken)
            <=> (Blocked(db') # Blocked(db))
       /\ (g'.critical_actions_taken # g.critical_actions_taken)
            => g'.critical_actions_taken =
                  Append(g.critical_actions_taken, "CARD_BLOCKED")]_vars

(* C33: in every step of both drivers and of every node the messages of
   the snapshot before are a prefix of the messages after; a new turn adds
   exactly the user's message at the end, and a node adds only agent
   messages, so each user turn stands before the replies it caused. *)
C33_TranscriptAppendOnly ==
    [][/\ IsPrefix(g.messages, g'.messages)
       /\ \A i \in (Len(g.messages) + 1)..Len(g'.messages) :
             g'.messages[i].role = IF op' = "ainvoke" THEN "human" ELSE "ai"
       /\ (op' = "ainvoke" /\ turns' = turns + 1)
            => Len(g'.messages) = Len(g.messages) + 1]_vars

(* A voice turn started from a driver copy that is older than the
   checkpoint: the input lacks a reply the checkpoint holds *)
C33_Witness ==
    /\ mode = "voice"
    /\ op = "ainvoke"
    /\ turns = 2
    /\ Len(g.messages) > Len(drv.messages)
    /\ Last(g.messages).role = "human"

(* C34: the card handler and the account handler are entered only in
   snapshots with authenticated true. *)
C34_HandlersOnlyAuthenticated ==
    pc \in {"card_atm_agent", "account_servicing_agent"} => g.authenticated

(* C35: the card handler run for a session authenticated as customer C
   changes only cards that belong to C. *)
C35_OnlyOwnCardsBlocked ==
    (op = "card_atm_agent" /\ drv.authenticated)
      => \A c \in Blocked(db) \ Blocked(InitDb) :
            CardOwner[c] = drv.customer_id

(* C36: once shutdown_event is set, agent_worker starts no graph
   invocation: no step takes it to the awaited ainvoke while the event is
   set. *)
C36_NoInvokeAfterShutdown ==
    [][(/\ task["agent_worker"] # "ainvoke"
        /\ task'["agent_worker"] = "ainvoke")
         => ~shutdown_event]_vars

(* agent_messages[-1]: the position of the reply a driver takes from the
   result of ainvoke, 0 when the result holds no agent message *)
agent_response(result) ==
    LET agent_messages == {i \in 1..Len(result.messages) :
                              result.messages[i].role = "ai"}
    IN  IF agent_messages = {} THEN 0
        ELSE CHOOSE i \in agent_messages : \A j \in agent_messages : j <= i

(* The position of the user message the turn started with *)
TurnStart(result) ==
    LET human == {i \in 1..Len(result.messages) :
                     result.messages[i].role = "human"}
    IN  CHOOSE i \in human : \A j \in human : j <= i

(* C37: when ainvoke has returned, the reply the driver sends is an agent
   message that stands after the user message of this turn; when the
   macro-step appended no agent message nothing is sent. *)
C37_ReplyBelongsToTurn ==
    pc = "returned"
      => \/ agent_response(g) = 0
         \/ agent_response(g) > TurnStart(g)

(* C38: in both drivers the snapshot the graph is entered with for a new
   user turn has needs_user_input false. *)
C38_TurnEntersWithoutPendingInput ==
    op = "ainvoke" => ~g.needs_user_input

(* C39: in every session resume_node is unset or a target registered for
   the router, the key every path function returns is in the path map of
   its node, and after a stub node check_flow_completion answers
   escalation, __end__ or complete, never its fall-through. *)
C39_RoutingNeverFails ==
    /\ g.resume_node \in {None} \cup PathMap("intent_router")
    /\ op \in GraphNodes \ {"escalation"} => ret \in PathMap(op)
    /\ op \in StubNodes => ret \in {"escalation", "__end__", "complete"}

(* A resumed turn: the router followed resume_node to the closure stub,
   whose completion check answered escalation *)
C39_Witness ==
    /\ op = "closure_agent"
    /\ g.resume_node = "closure_agent"
    /\ ret = "escalation"
    /\ turns = 2

(* C40: the escalation node is entered only with escalation_requested true
   and a reason; a snapshot with flow_stage escalated has
   escalation_requested true; and no driver waits for another user turn
   after a turn that produced the hand-off message. *)
C40_EscalationOnlyWhenRequested ==
    /\ pc = "escalation"
         => g.escalation_requested /\ g.escalation_reason # None
    /\ g.flow_stage = "escalated" => g.escalation_requested
    /\ pc = "idle" => g.flow_stage # "escalated"

====
